---- MODULE Spec2Model ----
(***************************************************************************)
(* Model of src/src/condition.rs (cargo-make): the evaluation of a task    *)
(* step's condition.  validate_condition(flow_info, step) is              *)
(*     validate_criteria(flow_info, step) && validate_script(step)         *)
(* where validate_criteria is the short-circuit conjunction of seven       *)
(* scalar checks and validate_script runs the optional condition script.   *)
(*                                                                         *)
(* Encodings.  Option<T>: None is <<>>, Some(x) is <<x>>.  Vec<String>: a  *)
(* sequence of strings.  The env map: a sequence of <<key, value>> pairs   *)
(* with distinct keys, in the order the map iterates them.  A version      *)
(* string "1.10.0": the sequence <<1, 10, 0>> of its dot-separated parts,  *)
(* a part that is not a number being a negative entry; string equality is  *)
(* equality of these sequences, so "1.10" and "1.10.0" are different       *)
(* strings that parse to the same triple.                                  *)
(***************************************************************************)
EXTENDS Integers, Sequences, FiniteSets, TLC

VARIABLES
    step,             \* the Step: step.config.condition, .condition_script
    flow_info,        \* the FlowInfo: flow_info.env_info.rust_info.channel
    platform_name,    \* what types::get_platform_name() returns
    profile_name,     \* what profile::get() returns
    environ,          \* the process environment read by std::env::var
    rustinfo,         \* what rust_info::get() returns
    unparsable_newer, \* what is_newer answers for an operand it cannot parse
    pc,               \* position inside validate_condition
    criteria,         \* Option<bool>: value returned by validate_criteria
    script_result,    \* Option<bool>: value returned by validate_script
    exit_code,        \* Option<i32>: exit code returned by command::run_script
    script_runs,      \* number of command::run_script invocations
    ret               \* Option<bool>: value returned by validate_condition

vars == <<step, flow_info, platform_name, profile_name, environ, rustinfo,
          unparsable_newer, pc, criteria, script_result, exit_code,
          script_runs, ret>>

-----------------------------------------------------------------------------
(* Bounds *)

\* longest configured list (channels, env_set, env_not_set) that is enumerated
MaxList == 2
\* largest value of a version part in the enumerated version strings
MaxPart == 1
\* largest exit code a condition script returns (smallest is -1)
MaxExit == 1

-----------------------------------------------------------------------------
(* Option *)

None == <<>>
Some(x) == <<x>>
is_some(o) == o # <<>>
unwrap(o) == o[1]

SeqsUpTo(S, n) == UNION {[1..k -> S] : k \in 0..n}
Opt(S) == {None} \cup {Some(x) : x \in S}

\* Iterator::position: index of the first element satisfying the closure
position(names, wanted) ==
    IF \E i \in 1..Len(names) : names[i] = wanted
    THEN Some(CHOOSE i \in 1..Len(names) :
                 /\ names[i] = wanted
                 /\ \A j \in 1..(i - 1) : names[j] # wanted)
    ELSE None

-----------------------------------------------------------------------------
(* The process environment *)

Unset == <<"unset">>
NotUnicode == <<"not-unicode">>
Unicode(v) == <<"unicode", v>>

\* std::env::var(key): Ok(value) when the variable is set to valid Unicode,
\* Err(NotPresent) when it is not set, Err(NotUnicode) when its value is not
\* valid Unicode.  Ok(v) is Some(v), any Err is None.
env_var(key) ==
    IF environ[key][1] = "unicode" THEN Some(environ[key][2]) ELSE None

\* env_loop without the `break`: all_valid is overwritten by every later pair
RECURSIVE env_loop_no_break(_, _)
env_loop_no_break(env_vars, i) ==
    IF i > Len(env_vars) THEN TRUE
    ELSE LET value == env_var(env_vars[i][1])
             all_valid == IF is_some(value)
                          THEN unwrap(value) = env_vars[i][2]
                          ELSE FALSE
         IN  IF i = Len(env_vars) THEN all_valid
             ELSE env_loop_no_break(env_vars, i + 1)

RECURSIVE env_loop(_, _)
env_loop(env_vars, i) ==
    IF i > Len(env_vars) THEN TRUE
    ELSE LET key == env_vars[i][1]
             current_value == env_vars[i][2]
             value == env_var(key)
             all_valid == IF is_some(value)
                          THEN unwrap(value) = current_value
                          ELSE FALSE
         IN  IF ~all_valid THEN FALSE ELSE env_loop(env_vars, i + 1)

validate_env(condition) ==
    IF is_some(condition.env)
    THEN env_loop(unwrap(condition.env), 1)
    ELSE TRUE

RECURSIVE env_set_loop(_, _)
env_set_loop(env_vars, i) ==
    IF i > Len(env_vars) THEN TRUE
    ELSE LET all_valid == is_some(env_var(env_vars[i]))
         IN  IF ~all_valid THEN FALSE ELSE env_set_loop(env_vars, i + 1)

validate_env_set(condition) ==
    IF is_some(condition.env_set)
    THEN env_set_loop(unwrap(condition.env_set), 1)
    ELSE TRUE

RECURSIVE env_not_set_loop(_, _)
env_not_set_loop(env_vars, i) ==
    IF i > Len(env_vars) THEN TRUE
    ELSE LET all_valid == ~is_some(env_var(env_vars[i]))
         IN  IF ~all_valid THEN FALSE ELSE env_not_set_loop(env_vars, i + 1)

validate_env_not_set(condition) ==
    IF is_some(condition.env_not_set)
    THEN env_not_set_loop(unwrap(condition.env_not_set), 1)
    ELSE TRUE

-----------------------------------------------------------------------------
(* Platform, profile, channel *)

validate_platform(condition) ==
    IF is_some(condition.platforms)
    THEN is_some(position(unwrap(condition.platforms), platform_name))
    ELSE TRUE

validate_profile(condition) ==
    IF is_some(condition.profiles)
    THEN is_some(position(unwrap(condition.profiles), profile_name))
    ELSE TRUE

\* channel_literal with the Beta arm pasted from the Stable arm
channel_literal_pasted(value) ==
    CASE value = "Stable" -> "stable"
      [] value = "Beta" -> "stable"
      [] value = "Nightly" -> "nightly"

\* the literal each RustChannel variant is looked up by
channel_literal(value) ==
    CASE value = "Stable" -> "stable"
      [] value = "Beta" -> "beta"
      [] value = "Nightly" -> "nightly"

\* validate_channel matching on the toolchain channel before the constraint
validate_channel_known_first(condition, flow) ==
    IF is_some(flow.env_info.rust_info.channel)
    THEN IF is_some(condition.channels)
         THEN is_some(position(unwrap(condition.channels),
                  channel_literal(unwrap(flow.env_info.rust_info.channel))))
         ELSE TRUE
    ELSE FALSE

validate_channel(condition, flow) ==
    IF is_some(condition.channels)
    THEN IF is_some(flow.env_info.rust_info.channel)
         THEN is_some(position(unwrap(condition.channels),
                  channel_literal(unwrap(flow.env_info.rust_info.channel))))
         ELSE FALSE
    ELSE TRUE

-----------------------------------------------------------------------------
(* Versions *)

\* a version string parses when every dot-separated part is a number
parsable(version) == \A i \in 1..Len(version) : version[i] >= 0

\* (major, minor, patch), missing trailing parts being 0
parts(version) == [i \in 1..3 |-> IF i <= Len(version) THEN version[i] ELSE 0]

ordered_after(a, b) ==
    LET x == parts(a)
        y == parts(b)
    IN  \/ x[1] > y[1]
        \/ x[1] = y[1] /\ x[2] > y[2]
        \/ x[1] = y[1] /\ x[2] = y[2] /\ x[3] > y[3]

\* crate::version::is_newer, whose source is not part of src/: a is ordered
\* after b (or equal to it, unless strictly).  What it answers when an operand
\* does not parse is left open: unparsable_newer.
is_newer(a, b, strictly) ==
    IF ~parsable(a) \/ ~parsable(b) THEN unparsable_newer
    ELSE IF strictly THEN ordered_after(a, b)
    ELSE ordered_after(a, b) \/ parts(a) = parts(b)

\* validate_rust_version_condition pinning `equal` although the current
\* version is unknown
validate_rust_version_condition_pinned(info, condition) ==
    IF is_some(info.version)
    THEN /\ is_some(condition.min) =>
               \/ unwrap(condition.min) = unwrap(info.version)
               \/ is_newer(unwrap(condition.min), unwrap(info.version), TRUE)
         /\ is_some(condition.max) =>
               \/ unwrap(condition.max) = unwrap(info.version)
               \/ is_newer(unwrap(info.version), unwrap(condition.max), TRUE)
         /\ is_some(condition.equal) =>
               unwrap(condition.equal) = unwrap(info.version)
    ELSE ~is_some(condition.equal)

validate_rust_version_condition(info, condition) ==
    IF is_some(info.version)
    THEN LET current_version == unwrap(info.version)
             valid_min ==
                 IF is_some(condition.min)
                 THEN \/ unwrap(condition.min) = current_version
                      \/ is_newer(unwrap(condition.min), current_version, TRUE)
                 ELSE TRUE
             valid_max ==
                 IF valid_min
                 THEN IF is_some(condition.max)
                      THEN \/ unwrap(condition.max) = current_version
                           \/ is_newer(current_version, unwrap(condition.max), TRUE)
                      ELSE TRUE
                 ELSE valid_min
             valid ==
                 IF valid_max
                 THEN IF is_some(condition.equal)
                      THEN unwrap(condition.equal) = current_version
                      ELSE TRUE
                 ELSE valid_max
         IN  valid
    ELSE TRUE

validate_rust_version(condition) ==
    IF is_some(condition.rust_version)
    THEN validate_rust_version_condition(rustinfo, unwrap(condition.rust_version))
    ELSE TRUE

-----------------------------------------------------------------------------
(* Criteria *)

\* validate_criteria without its env_not_set conjunct
validate_criteria_short(flow, s) ==
    IF is_some(s.config.condition)
    THEN LET condition == unwrap(s.config.condition)
         IN  /\ validate_platform(condition)
             /\ validate_profile(condition)
             /\ validate_channel(condition, flow)
             /\ validate_env(condition)
             /\ validate_env_set(condition)
             /\ validate_rust_version(condition)
    ELSE TRUE

validate_criteria(flow, s) ==
    IF is_some(s.config.condition)
    THEN LET condition == unwrap(s.config.condition)
         IN  /\ validate_platform(condition)
             /\ validate_profile(condition)
             /\ validate_channel(condition, flow)
             /\ validate_env(condition)
             /\ validate_env_set(condition)
             /\ validate_env_not_set(condition)
             /\ validate_rust_version(condition)
    ELSE TRUE

\* `&` in place of `&&`: the right operand is evaluated whatever lhs is
and_then_eager(lhs) == "validate_script"

\* `lhs && validate_script(..)`: where control goes once lhs is known
and_then(lhs) == IF lhs THEN "validate_script" ELSE "return"

\* the exit code tested for failure to launch only
script_passed_launched(code) == IF code >= 0 THEN TRUE ELSE FALSE

\* validate_script's mapping of the exit code
script_passed(code) == IF code = 0 THEN TRUE ELSE FALSE

ExitCodes == (-1)..MaxExit

-----------------------------------------------------------------------------
(* Inputs *)

NoCondition ==
    [platforms |-> None, profiles |-> None, channels |-> None, env |-> None,
     env_set |-> None, env_not_set |-> None, rust_version |-> None]

NoVersionCondition == [min |-> None, max |-> None, equal |-> None]

Flow(channel) == [env_info |-> [rust_info |-> [channel |-> channel]]]
Step(condition, script) ==
    [config |-> [condition |-> condition, condition_script |-> script]]

Script == <<"exit $RESULT">>

VarNames == {"FOO", "BAR"}
VarValues == {"bar", "baz"}
EnvValues == {Unset, NotUnicode} \cup {Unicode(v) : v \in VarValues}
Channels == {"Stable", "Beta", "Nightly"}
ChannelNames == {"stable", "beta", "nightly", "Nightly"}

\* version strings with one to three numeric parts
NumericVersions == UNION {[1..k -> 0..MaxPart] : k \in 1..3}
\* version strings with a part that is not a number: "x", "1.x.0"
MalformedVersions == {<<-1>>, <<1, -1, 0>>}
\* the version strings of the documented examples
ExampleVersions ==
    {<<1, 0, 0>>, <<1, 9, 0>>, <<1, 10, 0>>, <<1, 10, 1>>, <<1, 11, 0>>}
Versions == NumericVersions \cup MalformedVersions
KnownVersions == ExampleVersions \cup {<<1, 10>>, <<1>>} \cup MalformedVersions

VersionConditions(V) ==
    [min : Opt(V), max : Opt(V), equal : Opt(V)]

\* the maps over VarNames, in every iteration order
EnvMaps ==
    {m \in SeqsUpTo(VarNames \X VarValues, Cardinality(VarNames)) :
        \A i, j \in 1..Len(m) : i # j => m[i][1] # m[j][1]}

NoEnviron == [k \in VarNames |-> Unset]

Start ==
    /\ pc = "validate_criteria"
    /\ criteria = None
    /\ script_result = None
    /\ exit_code = None
    /\ script_runs = 0
    /\ ret = None

\* every dimension constrained or not, passing or failing, script or not
InitCompose ==
    /\ platform_name = "linux"
    /\ profile_name = "development"
    /\ unparsable_newer = FALSE
    /\ \E channel \in {None, Some("Stable"), Some("Nightly")} :
           flow_info = Flow(channel)
    /\ \E foo \in {Unset, Unicode("bar"), Unicode("baz")} :
           environ = [NoEnviron EXCEPT !["FOO"] = foo]
    /\ \E version \in {None, Some(<<1, 10, 0>>)} :
           rustinfo = [version |-> version, channel |-> None]
    /\ \E platforms \in {None, Some(<<"linux">>), Some(<<"windows", "mac">>)},
          profiles \in {None, Some(<<"development">>), Some(<<"production">>)},
          channels \in {None, Some(<<"nightly">>)},
          env \in {None, Some(<<<<"FOO", "bar">>>>)},
          env_set \in {None, Some(<<"FOO">>)},
          env_not_set \in {None, Some(<<"FOO">>), Some(<<"BAR">>)},
          rust_version \in
              {None,
               Some([NoVersionCondition EXCEPT !.equal = Some(<<1, 10, 0>>)]),
               Some([NoVersionCondition EXCEPT !.equal = Some(<<1, 10, 1>>)])},
          script \in {None, Some(Script)} :
           step = Step(Some([platforms |-> platforms, profiles |-> profiles,
                             channels |-> channels, env |-> env,
                             env_set |-> env_set, env_not_set |-> env_not_set,
                             rust_version |-> rust_version]), script)

\* a step without a condition, in every ambient state of the other slices
InitNoCondition ==
    /\ platform_name \in {"linux", "windows"}
    /\ profile_name \in {"development", "production"}
    /\ unparsable_newer \in BOOLEAN
    /\ \E channel \in Opt(Channels) : flow_info = Flow(channel)
    /\ environ \in [VarNames -> EnvValues]
    /\ \E version \in Opt(KnownVersions) :
           rustinfo = [version |-> version, channel |-> None]
    /\ \E condition \in {None, Some(NoCondition)}, script \in {None, Some(Script)} :
           step = Step(condition, script)

\* the env, env_set and env_not_set checks
InitEnv ==
    /\ platform_name = "linux"
    /\ profile_name = "development"
    /\ unparsable_newer = FALSE
    /\ flow_info = Flow(None)
    /\ environ \in [VarNames -> EnvValues]
    /\ rustinfo = [version |-> None, channel |-> None]
    /\ \E env \in Opt(EnvMaps),
          env_set \in Opt(SeqsUpTo(VarNames, MaxList)),
          env_not_set \in Opt(SeqsUpTo(VarNames, MaxList)) :
           step = Step(Some([NoCondition EXCEPT !.env = env,
                                                !.env_set = env_set,
                                                !.env_not_set = env_not_set]),
                       None)

\* the channel check
InitChannel ==
    /\ platform_name = "linux"
    /\ profile_name = "development"
    /\ unparsable_newer = FALSE
    /\ \E channel \in Opt(Channels) : flow_info = Flow(channel)
    /\ environ = NoEnviron
    /\ rustinfo = [version |-> None, channel |-> None]
    /\ \E channels \in Opt(SeqsUpTo(ChannelNames, MaxList)) :
           step = Step(Some([NoCondition EXCEPT !.channels = channels]), None)

\* the rust_version check
InitVersion ==
    /\ platform_name = "linux"
    /\ profile_name = "development"
    /\ unparsable_newer \in BOOLEAN
    /\ flow_info = Flow(None)
    /\ environ = NoEnviron
    /\ \/ /\ rustinfo = [version |-> None, channel |-> None]
          /\ \E rust_version \in VersionConditions(Versions) :
                 step = Step(Some([NoCondition EXCEPT
                                      !.rust_version = Some(rust_version)]), None)
       \/ /\ \E version \in KnownVersions :
                 rustinfo = [version |-> Some(version), channel |-> None]
          /\ \E rust_version \in VersionConditions(KnownVersions) :
                 step = Step(Some([NoCondition EXCEPT
                                      !.rust_version = Some(rust_version)]), None)

Init ==
    /\ Start
    /\ \/ InitCompose
       \/ InitNoCondition
       \/ InitEnv
       \/ InitChannel
       \/ InitVersion

-----------------------------------------------------------------------------
(* validate_condition, step by step *)

ValidateCriteria ==
    /\ pc = "validate_criteria"
    /\ criteria' = Some(validate_criteria(flow_info, step))
    /\ pc' = and_then(validate_criteria(flow_info, step))
    /\ UNCHANGED <<step, flow_info, platform_name, profile_name, environ,
                   rustinfo, unparsable_newer, script_result, exit_code,
                   script_runs, ret>>

ValidateScript ==
    /\ pc = "validate_script"
    /\ IF is_some(step.config.condition_script)
       THEN \E code \in ExitCodes :
               /\ exit_code' = Some(code)
               /\ script_runs' = script_runs + 1
               /\ script_result' = Some(script_passed(code))
       ELSE /\ script_result' = Some(TRUE)
            /\ UNCHANGED <<exit_code, script_runs>>
    /\ pc' = "return"
    /\ UNCHANGED <<step, flow_info, platform_name, profile_name, environ,
                   rustinfo, unparsable_newer, criteria, ret>>

Return ==
    /\ pc = "return"
    /\ ret' = Some(IF unwrap(criteria) THEN unwrap(script_result) ELSE FALSE)
    /\ pc' = "done"
    /\ UNCHANGED <<step, flow_info, platform_name, profile_name, environ,
                   rustinfo, unparsable_newer, criteria, script_result,
                   exit_code, script_runs>>

Next == ValidateCriteria \/ ValidateScript \/ Return

Spec == Init /\ [][Next]_vars

-----------------------------------------------------------------------------
(* Properties *)

Done == pc = "done"
has_condition == is_some(step.config.condition)
the_condition == unwrap(step.config.condition)
has_script == is_some(step.config.condition_script)
elements(list) == {list[i] : i \in 1..Len(list)}

\* C1: the condition script is executed only after validate_criteria has
\* returned true: when the criteria evaluate to false, command::run_script is
\* never invoked (also when a condition_script is present) and
\* validate_condition returns false.
C1_ScriptOnlyAfterCriteria ==
    /\ script_runs > 0 => criteria = Some(TRUE)
    /\ is_some(script_result) => criteria = Some(TRUE)
    /\ ~validate_criteria(flow_info, step) =>
          /\ script_runs = 0
          /\ exit_code = None
          /\ Done => ret = Some(FALSE)

C1_Witness ==
    /\ Done
    /\ has_condition
    /\ has_script
    /\ is_some(the_condition.platforms)
    /\ platform_name \notin elements(unwrap(the_condition.platforms))
    /\ script_runs = 0
    /\ ret = Some(FALSE)

\* whether each dimension of the condition holds in the ambient state
seven_checks ==
    has_condition =>
        /\ validate_platform(the_condition)
        /\ validate_profile(the_condition)
        /\ validate_channel(the_condition, flow_info)
        /\ validate_env(the_condition)
        /\ validate_env_set(the_condition)
        /\ validate_env_not_set(the_condition)
        /\ validate_rust_version(the_condition)

\* the script gate: no condition script, or one that exited with status 0
script_gate == ~has_script \/ exit_code = Some(0)

\* C2: validate_condition returns true iff all seven scalar checks (platform,
\* profile, channel, env, env_set, env_not_set, rust_version) pass and the
\* script gate passes; so a single failing check or a failing script gate
\* makes the result false.
C2_CombinationLaw ==
    Done => ret = Some(seven_checks /\ script_gate)

C2_Witness ==
    /\ Done
    /\ has_condition
    /\ \A f \in DOMAIN the_condition : is_some(the_condition[f])
    /\ has_script
    /\ exit_code = Some(0)
    /\ ret = Some(TRUE)

\* C9: the script gate passes iff the executed condition script's exit status
\* is 0, and passes without running anything when condition_script is absent;
\* for a step whose criteria pass, validate_condition returns true iff
\* condition_script is absent or its exit status is 0.
C9_ScriptGate ==
    /\ is_some(script_result) =>
          IF has_script
          THEN /\ script_runs = 1
               /\ is_some(exit_code)
               /\ unwrap(script_result) = (unwrap(exit_code) = 0)
          ELSE /\ script_runs = 0
               /\ exit_code = None
               /\ unwrap(script_result) = TRUE
    /\ (Done /\ criteria = Some(TRUE)) =>
          ret = Some(~has_script \/ exit_code = Some(0))

C9_Witness ==
    /\ Done
    /\ criteria = Some(TRUE)
    /\ has_script
    /\ is_some(exit_code)
    /\ unwrap(exit_code) > 0
    /\ ret = Some(FALSE)

\* C10: a step whose condition is absent, or present with every optional
\* field absent, and whose condition_script is absent is accepted in every
\* ambient state (any platform, profile, environment, toolchain channel and
\* version, known or unknown).
C10_VacuousPass ==
    (/\ Done
     /\ has_condition => the_condition = NoCondition
     /\ ~has_script) => ret = Some(TRUE)

C10_Witness ==
    /\ Done
    /\ has_condition
    /\ the_condition = NoCondition
    /\ ~has_script
    /\ flow_info.env_info.rust_info.channel = None
    /\ rustinfo.version = None
    /\ environ["FOO"] = NotUnicode
    /\ ret = Some(TRUE)

has_version_condition ==
    has_condition /\ is_some(the_condition.rust_version)
version_condition == unwrap(the_condition.rust_version)

\* the component-wise order on (major, minor, patch)
at_least(a, b) == ordered_after(a, b) \/ parts(a) = parts(b)

\* a well-formed version string: major.minor.patch, each a number
full_version(version) == Len(version) = 3 /\ parsable(version)

\* the versions a check reads are all well-formed
well_formed(current, condition) ==
    /\ full_version(current)
    /\ \A f \in {"min", "max", "equal"} :
           is_some(condition[f]) => full_version(unwrap(condition[f]))

in_range(current, condition) ==
    /\ is_some(condition.min) => at_least(current, unwrap(condition.min))
    /\ is_some(condition.max) => at_least(unwrap(condition.max), current)
    /\ is_some(condition.equal) => unwrap(condition.equal) = current

\* C3: when the current toolchain version is known and all versions are
\* well-formed, validate_rust_version_condition returns true iff (min is
\* absent or current >= min) and (max is absent or current <= max) and (equal
\* is absent or equal == current), in the component-wise order on (major,
\* minor, patch); with current "1.10.0", {min:"1.9.0"} passes.
C3_VersionRange ==
    (/\ Done
     /\ has_version_condition
     /\ is_some(rustinfo.version)
     /\ well_formed(unwrap(rustinfo.version), version_condition)) =>
        /\ validate_rust_version_condition(rustinfo, version_condition)
               = in_range(unwrap(rustinfo.version), version_condition)
        /\ (/\ the_condition
                  = [NoCondition EXCEPT !.rust_version = Some(version_condition)]
            /\ ~has_script) =>
               ret = Some(in_range(unwrap(rustinfo.version), version_condition))

\* C5: if the current toolchain version is unknown, the rust_version check
\* passes for every RustVersionCondition, whatever min, max and equal are
\* (malformed or mutually contradictory values included); an unknown channel
\* fails every present `channels` constraint.
C5_UnknownToolchain ==
    /\ (has_version_condition /\ rustinfo.version = None) =>
          /\ validate_rust_version(the_condition)
          /\ validate_rust_version_condition(rustinfo, version_condition)
          /\ (Done /\ the_condition
                        = [NoCondition EXCEPT !.rust_version = Some(version_condition)]
                   /\ ~has_script) => ret = Some(TRUE)
    /\ (/\ has_condition
        /\ is_some(the_condition.channels)
        /\ flow_info.env_info.rust_info.channel = None) =>
          /\ ~validate_channel(the_condition, flow_info)
          /\ Done => ret = Some(FALSE)

C5_Witness ==
    /\ Done
    /\ has_version_condition
    /\ rustinfo.version = None
    /\ is_some(version_condition.min)
    /\ ~parsable(unwrap(version_condition.min))
    /\ is_some(version_condition.max)
    /\ is_some(version_condition.equal)
    /\ ordered_after(unwrap(version_condition.equal), unwrap(version_condition.max))
    /\ ret = Some(TRUE)

\* the canonical lowercase name of a toolchain channel
canonical_name == [Stable |-> "stable", Beta |-> "beta", Nightly |-> "nightly"]

channel_accepted ==
    /\ is_some(flow_info.env_info.rust_info.channel)
    /\ canonical_name[unwrap(flow_info.env_info.rust_info.channel)]
           \in elements(unwrap(the_condition.channels))

\* C6: when `channels` is present, validate_channel returns true iff the
\* flow's toolchain channel is known and its canonical lowercase name is a
\* member of the configured list; it returns false when the channel is
\* unknown, and true when `channels` is absent.
C6_ChannelMembership ==
    has_condition =>
        IF is_some(the_condition.channels)
        THEN /\ validate_channel(the_condition, flow_info) = channel_accepted
             /\ (Done /\ ~channel_accepted) => ret = Some(FALSE)
             /\ (Done /\ channel_accepted /\ ~has_script
                      /\ the_condition = [NoCondition EXCEPT
                                             !.channels = the_condition.channels]) =>
                    ret = Some(TRUE)
        ELSE validate_channel(the_condition, flow_info)

C6_Witness ==
    /\ Done
    /\ has_condition
    /\ the_condition.channels = Some(<<"nightly", "beta">>)
    /\ flow_info.env_info.rust_info.channel = Some("Beta")
    /\ ret = Some(TRUE)

\* a variable is present in the environment when it is set, whatever its value
present(key) == environ[key] # Unset

\* C7: for any single variable name key and any fixed environment snapshot,
\* env_set={key} passes iff env_not_set={key} fails; env_set passes iff every
\* listed name is present and env_not_set passes iff no listed name is
\* present.
C7_EnvSetComplement ==
    Done =>
    /\ \A key \in VarNames :
          validate_env_set([NoCondition EXCEPT !.env_set = Some(<<key>>)])
              = ~validate_env_not_set([NoCondition EXCEPT !.env_not_set = Some(<<key>>)])
    /\ (has_condition /\ is_some(the_condition.env_set)) =>
          validate_env_set(the_condition)
              = (\A key \in elements(unwrap(the_condition.env_set)) : present(key))
    /\ (has_condition /\ is_some(the_condition.env_not_set)) =>
          validate_env_not_set(the_condition)
              = (\A key \in elements(unwrap(the_condition.env_not_set)) : ~present(key))

\* every configured pair is matched by the environment
env_matches(env_vars) ==
    \A i \in 1..Len(env_vars) :
        environ[env_vars[i][1]] = Unicode(env_vars[i][2])

\* C8: when `env` is present, validate_env returns true iff for every (key,
\* expectedValue) pair the variable exists in the environment and its value
\* equals expectedValue exactly; one missing or mismatched variable makes the
\* result false whatever the iteration order of the pairs and whether or not
\* the other pairs match.
C8_EnvEquality ==
    (has_condition /\ is_some(the_condition.env)) =>
        /\ validate_env(the_condition) = env_matches(unwrap(the_condition.env))
        /\ (Done /\ ~env_matches(unwrap(the_condition.env))) => ret = Some(FALSE)
        /\ (Done /\ env_matches(unwrap(the_condition.env)) /\ ~has_script
                 /\ the_condition = [NoCondition EXCEPT !.env = the_condition.env]) =>
               ret = Some(TRUE)

C8_Witness ==
    /\ Done
    /\ has_condition
    /\ the_condition.env = Some(<<<<"FOO", "bar">>, <<"BAR", "baz">>>>)
    /\ environ["FOO"] = Unicode("baz")
    /\ environ["BAR"] = Unicode("baz")
    /\ ret = Some(FALSE)

====
